---- MODULE Spec2Model ----
(***************************************************************************)
(* A model of the cache server: the command handlers of handler.go, the    *)
(* per-connection loop of server.go and the snapshot codec of              *)
(* persistence.go.  Strings are sequences of bytes (0..255); the snapshot  *)
(* file is the sequence of bytes the code writes and parses.               *)
(***************************************************************************)
EXTENDS Integers, Sequences, FiniteSets, TLC

(***************************************************************************)
(* Markers of the snapshot format (persistence.go, const block).           *)
(***************************************************************************)
STRING_TYPE == 0
METADATA_SECTION == 250
DB_INDEX == 0
DB_SECTION == 254
HASHTABLE_SIZE == 251
KEYVALUE_EXPIRY == 252
EOF == 255

\* "REDIS0011"
Magic == <<82, 69, 68, 73, 83, 48, 48, 49, 49>>
\* "redis-ver"
RedisVer == <<114, 101, 100, 105, 115, 45, 118, 101, 114>>
\* "7.2.0"
RedisVerValue == <<55, 46, 50, 46, 48>>
\* "redis-bits"
RedisBits == <<114, 101, 100, 105, 115, 45, 98, 105, 116, 115>>
\* the two bytes 0xc0 0x40 written after "redis-bits"
RedisBitsValue == <<192, 64>>

(***************************************************************************)
(* Time.  The clock counts ticks; TicksPerMs ticks make one millisecond,   *)
(* so that an expiry (a time.Time, finer than a millisecond) and its       *)
(* UnixMilli() image in the file are different things.  The zero           *)
(* time.Time{} is NoExpiry.                                                *)
(***************************************************************************)
TicksPerMs == 2
NoExpiry == -1

(***************************************************************************)
(* The snapshot encoder.                                                   *)
(***************************************************************************)
\* a variant that leaves the 0x40 flag out of the two-byte form
lengthEncodingNoFlag(strLen) ==
    IF strLen < 64 THEN [err |-> FALSE, bytes |-> <<strLen>>]
    ELSE IF strLen < 16384
         THEN [err |-> FALSE, bytes |-> <<strLen \div 256, strLen % 256>>]
         ELSE [err |-> TRUE, bytes |-> <<>>]

\* lengthEncoding: one byte below 1<<6, two bytes below 1<<14, else an error.
lengthEncoding(strLen) ==
    IF strLen < 64 THEN [err |-> FALSE, bytes |-> <<strLen>>]
    ELSE IF strLen < 16384
         THEN [err |-> FALSE, bytes |-> <<(strLen \div 256) + 64, strLen % 256>>]
         ELSE [err |-> TRUE, bytes |-> <<>>]

\* stringEncoding: the length prefix and the bytes; nothing on a length error.
stringEncoding(s) ==
    LET l == lengthEncoding(Len(s))
    IN  IF l.err THEN <<>> ELSE l.bytes \o s

\* binary.LittleEndian.PutUint64 for the first n bytes.
RECURSIVE LittleEndian(_, _)
LittleEndian(v, n) ==
    IF n = 0 THEN <<>> ELSE <<v % 256>> \o LittleEndian(v \div 256, n - 1)

\* expire.UnixMilli(): the expiry cut down to whole milliseconds.
UnixMilli(t) == t \div TicksPerMs

\* timestampEncoding: 8 bytes, little endian, of UnixMilli.
timestampEncoding(expire) == LittleEndian(UnixMilli(expire), 8)

\* writeKeyValue: an entry, with the expiry marker and timestamp when it has one.
writeKeyValue(key, value) ==
    IF value.expiry = NoExpiry
    THEN <<STRING_TYPE>> \o stringEncoding(key) \o stringEncoding(value.value)
    ELSE <<KEYVALUE_EXPIRY>> \o timestampEncoding(value.expiry)
         \o <<STRING_TYPE>> \o stringEncoding(key) \o stringEncoding(value.value)

\* byte(len(SETs)): the count keeps its low 8 bits.
CountByte(n) == n % 256

\* initRDB steps 1-4: header, the two metadata entries, the DB section header
\* with the count n that len(SETs) gave.
RDBHeader(n) ==
    Magic
    \o <<METADATA_SECTION>> \o stringEncoding(RedisVer) \o stringEncoding(RedisVerValue)
    \o <<METADATA_SECTION>> \o stringEncoding(RedisBits) \o RedisBitsValue
    \o <<DB_SECTION>> \o <<DB_INDEX>>
    \o <<HASHTABLE_SIZE, CountByte(n)>> \o <<0>>

\* initRDB step 5: the entries in the order the map iteration yields them.
RECURSIVE RDBEntriesRange(_, _, _, _)
RDBEntriesRange(m, order, lo, hi) ==
    IF lo > hi THEN <<>>
    ELSE IF lo = hi THEN writeKeyValue(order[lo], m[order[lo]])
    ELSE RDBEntriesRange(m, order, lo, (lo + hi) \div 2)
            \o RDBEntriesRange(m, order, (lo + hi) \div 2 + 1, hi)

RDBEntries(m, order) == RDBEntriesRange(m, order, 1, Len(order))

\* initRDB steps 1-6: what the first Flush puts in the file.
RDBBody(n, m, order) == RDBHeader(n) \o RDBEntries(m, order) \o <<EOF>>

\* the sum of bytes[lo..hi], by halves
RECURSIVE SumRange(_, _, _)
SumRange(bytes, lo, hi) ==
    IF lo > hi THEN 0
    ELSE IF lo = hi THEN bytes[lo]
    ELSE SumRange(bytes, lo, (lo + hi) \div 2) + SumRange(bytes, (lo + hi) \div 2 + 1, hi)

ByteSum(bytes) == SumRange(bytes, 1, Len(bytes))

\* calculateCRC64Checksum: 8 bytes, little endian, computed from the bytes of
\* the file.  The CRC-64 polynomial arithmetic is abstracted to a byte sum:
\* readRDBFile reads the 8 bytes and never compares them.
calculateCRC64Checksum(bytes) == LittleEndian(ByteSum(bytes), 8)

\* an order of the keys: the shorter first, and by their bytes for one length
RECURSIVE KeyNumber(_)
KeyNumber(k) ==
    IF k = <<>> THEN 0 ELSE 256 * KeyNumber(SubSeq(k, 1, Len(k) - 1)) + k[Len(k)]
KeyLess(a, b) ==
    Len(a) < Len(b) \/ (Len(a) = Len(b) /\ KeyNumber(a) < KeyNumber(b))

\* the keys of S, each with its place in that order
Ranked(S) == {<<Cardinality({y \in S : KeyLess(y, x)}) + 1, x>> : x \in S}

\* the elements of S one after the other, and that sequence backwards
SetToSeq(S) ==
    CHOOSE q \in {[i \in 1..Cardinality(R) |-> (CHOOSE p \in R : p[1] = i)[2]] :
                     R \in {Ranked(S)}} : TRUE
Reverse(q) == [i \in 1..Len(q) |-> q[Len(q) + 1 - i]]

\* The orders in which `range SETs` can yield the keys of m: every order for
\* a map of up to MaxOrdered keys, and two of them for a larger map.
MaxOrdered == 3
Orders(m) ==
    IF Cardinality(DOMAIN m) <= MaxOrdered
    THEN {o \in [1..Cardinality(DOMAIN m) -> DOMAIN m] :
            \A i, j \in DOMAIN o : i # j => o[i] # o[j]}
    ELSE {SetToSeq(DOMAIN m), Reverse(SetToSeq(DOMAIN m))}

(***************************************************************************)
(* The snapshot decoder.  A reader is the file's bytes and a position; a   *)
(* read returns [err, val, pos].                                           *)
(***************************************************************************)
Fail(p) == [err |-> TRUE, val |-> <<>>, pos |-> p]
Got(v, p) == [err |-> FALSE, val |-> v, pos |-> p]

\* reader.ReadByte
ReadByte(b, p) == IF p > Len(b) THEN Fail(p) ELSE Got(b[p], p + 1)

\* io.ReadFull(reader, buf) for a buffer of n bytes
ReadFull(b, p, n) ==
    IF p + n - 1 > Len(b) THEN Fail(p) ELSE Got(SubSeq(b, p, p + n - 1), p + n)

\* `if err != nil { return err }`: go on with k only when r is no error
Bind(r, k(_)) == IF r.err THEN r ELSE k(r)

\* a byte that must be `want`
Expect(b, p, want) ==
    Bind(ReadByte(b, p), LAMBDA r : IF r.val = want THEN r ELSE Fail(p))

\* a variant that reads the header and does not compare it
verifyHeaderUnchecked(b, p) == ReadFull(b, p, Len(Magic))

\* verifyHeader
verifyHeader(b, p) ==
    Bind(ReadFull(b, p, Len(Magic)), LAMBDA h : IF h.val = Magic THEN h ELSE Fail(p))

\* readLengthEncoded
readLengthEncoded(b, p) ==
    Bind(ReadByte(b, p), LAMBDA f :
        IF f.val \div 64 = 0 THEN f
        ELSE IF f.val \div 64 = 1
             THEN Bind(ReadByte(b, f.pos), LAMBDA s :
                      Got((f.val % 64) * 256 + s.val, s.pos))
             ELSE Fail(p))

\* readString
readString(b, p) ==
    Bind(readLengthEncoded(b, p), LAMBDA l : ReadFull(b, l.pos, l.val))

\* int64(binary.LittleEndian.Uint64(bytes)), in milliseconds: exact below 1<<16,
\* negative when the top bit is set, and FarFuture for every other value (all of
\* them later than the clock ever gets).
FarFuture == 65536
FromLittleEndian(bytes) ==
    IF bytes[8] >= 128 THEN -1
    ELSE IF \E i \in 3..8 : bytes[i] # 0 THEN FarFuture
    ELSE bytes[1] + 256 * bytes[2]

\* readTimestamp: time.UnixMilli of the 8 bytes, in ticks.
readTimestamp(b, p) ==
    Bind(ReadFull(b, p, 8), LAMBDA r : Got(FromLittleEndian(r.val) * TicksPerMs, r.pos))

\* the value of a metadata entry: 2 bytes for "redis-bits", a string otherwise
readMetadataValue(b, k) ==
    IF k.val = RedisBits THEN ReadFull(b, k.pos, 2) ELSE readString(b, k.pos)

\* readMetadata: entries until the DB_SECTION marker is next.
RECURSIVE readMetadata(_, _)
readMetadata(b, p) ==
    IF p > Len(b) THEN Fail(p)
    ELSE IF b[p] = DB_SECTION THEN Got(<<>>, p)
    ELSE IF b[p] # METADATA_SECTION THEN Fail(p)
    ELSE Bind(readString(b, p + 1), LAMBDA k :
             Bind(readMetadataValue(b, k), LAMBDA v : readMetadata(b, v.pos)))

\* the key and the value of an entry: val is <<key, value>>
readPair(b, p) ==
    Bind(readString(b, p), LAMBDA k :
        Bind(readString(b, k.pos), LAMBDA v : Got(<<k.val, v.val>>, v.pos)))

\* readKeyValue after the expiry marker: an expired entry is read and returned
\* as the empty key and value.
readExpiring(b, p, now) ==
    Bind(readTimestamp(b, p), LAMBDA e :
        Bind(Expect(b, e.pos, STRING_TYPE), LAMBDA t :
            IF now > e.val
            THEN Bind(readPair(b, t.pos), LAMBDA kv : Got(<<<<>>, <<>>>>, kv.pos))
            ELSE readPair(b, t.pos)))

\* readKeyValue
readKeyValue(b, p, now) ==
    Bind(ReadByte(b, p), LAMBDA t :
        IF t.val = KEYVALUE_EXPIRY THEN readExpiring(b, t.pos, now)
        ELSE IF t.val # STRING_TYPE THEN Fail(p)
        ELSE readPair(b, t.pos))

EmptyMap == [k \in {} |-> <<>>]

\* keyValues[key] = KeyValue{value: value}, skipped for the empty key
Bound(acc, kv) == IF kv[1] = <<>> THEN acc ELSE (kv[1] :> kv[2]) @@ acc

\* the loop of readRDBFile over kvCount entries
RECURSIVE readEntries(_, _, _, _, _)
readEntries(b, p, n, now, acc) ==
    IF n = 0 THEN Got(acc, p)
    ELSE Bind(readKeyValue(b, p, now), LAMBDA kv :
             readEntries(b, kv.pos, n - 1, now, Bound(acc, kv.val)))

\* readRDBFile after the DB section marker: the DB index, the hashtable size
\* marker, the count, the expire count, the entries, the end marker, the checksum
readDB(b, p, now) ==
    Bind(ReadByte(b, p), LAMBDA i :
    Bind(Expect(b, i.pos, HASHTABLE_SIZE), LAMBDA ht :
    Bind(ReadByte(b, ht.pos), LAMBDA c :
    Bind(ReadByte(b, c.pos), LAMBDA x :
    Bind(readEntries(b, x.pos, c.val, now, EmptyMap), LAMBDA es :
    Bind(Expect(b, es.pos, EOF), LAMBDA e :
    Bind(ReadFull(b, e.pos, 8), LAMBDA ck : Got(es.val, ck.pos))))))))

\* readRDBFile on a file that could be opened: [err, val], val the key -> value map.
readRDBFile(b, now) ==
    IF Len(b) = 0 THEN Fail(1)
    ELSE Bind(verifyHeader(b, 1), LAMBDA h :
         Bind(readMetadata(b, h.pos), LAMBDA m :
         Bind(Expect(b, m.pos, DB_SECTION), LAMBDA s : readDB(b, s.pos, now))))

(***************************************************************************)
(* Strings of the handlers (handler.go) and of main (server.go).           *)
(***************************************************************************)
\* "PING", "ECHO", "SET", "GET", "CONFIG", "SAVE", "KEYS": the keys of Handlers
PING == <<80, 73, 78, 71>>
ECHO == <<69, 67, 72, 79>>
SET == <<83, 69, 84>>
GET == <<71, 69, 84>>
CONFIG == <<67, 79, 78, 70, 73, 71>>
SAVE == <<83, 65, 86, 69>>
KEYS == <<75, 69, 89, 83>>
Handlers == {PING, ECHO, SET, GET, CONFIG, SAVE, KEYS}

\* "PONG", "OK", "px", "dir", "dbfilename", "*"
PONG == <<80, 79, 78, 71>>
OK == <<79, 75>>
PX == <<112, 120>>
DIR == <<100, 105, 114>>
DBFILENAME == <<100, 98, 102, 105, 108, 101, 110, 97, 109, 101>>
STAR == <<42>>
\* the flag defaults "./" and "dump.rdb" that main stores in RDBMap
RDBMapDir == <<46, 47>>
RDBMapDbfilename == <<100, 117, 109, 112, 46, 114, 100, 98>>

\* "ERR wrong number of arguments for 'set' command"
ErrSetArity ==
    <<69, 82, 82, 32, 119, 114, 111, 110, 103, 32, 110, 117, 109, 98, 101, 114, 32,
      111, 102, 32, 97, 114, 103, 117, 109, 101, 110, 116, 115, 32, 102, 111, 114,
      32, 39, 115, 101, 116, 39, 32, 99, 111, 109, 109, 97, 110, 100>>
\* "ERR unable to read file"
ErrReadFile ==
    <<69, 82, 82, 32, 117, 110, 97, 98, 108, 101, 32, 116, 111, 32, 114, 101, 97,
      100, 32, 102, 105, 108, 101>>
\* "ERR wrong number of arguments for 'config' command"
ErrConfigArity ==
    <<69, 82, 82, 32, 119, 114, 111, 110, 103, 32, 110, 117, 109, 98, 101, 114, 32,
      111, 102, 32, 97, 114, 103, 117, 109, 101, 110, 116, 115, 32, 102, 111, 114,
      32, 39, 99, 111, 110, 102, 105, 103, 39, 32, 99, 111, 109, 109, 97, 110, 100>>
\* "ERR invalid parameters for 'config' command"
ErrConfigParams ==
    <<69, 82, 82, 32, 105, 110, 118, 97, 108, 105, 100, 32, 112, 97, 114, 97, 109,
      101, 116, 101, 114, 115, 32, 102, 111, 114, 32, 39, 99, 111, 110, 102, 105,
      103, 39, 32, 99, 111, 109, 109, 97, 110, 100>>

\* strings.ToUpper on ASCII
ToUpper(s) == [i \in DOMAIN s |-> IF s[i] \in 97..122 THEN s[i] - 32 ELSE s[i]]

\* strings.Contains(s, sub)
Contains(s, sub) ==
    \E i \in 1..(Len(s) + 1) :
        /\ i + Len(sub) - 1 <= Len(s)
        /\ SubSeq(s, i, i + Len(sub) - 1) = sub

\* strconv.Atoi with its error dropped: the number, or 0 when s is not one.
RECURSIVE Digits(_, _)
Digits(s, acc) ==
    IF s = <<>> THEN acc
    ELSE IF Head(s) \in 48..57 THEN Digits(Tail(s), acc * 10 + (Head(s) - 48))
    ELSE -1
Atoi(s) ==
    LET neg == s # <<>> /\ Head(s) = 45
        body == IF s # <<>> /\ Head(s) \in {43, 45} THEN Tail(s) ELSE s
        n == IF body = <<>> THEN -1 ELSE Digits(body, 0)
    IN  IF n = -1 THEN 0 ELSE IF neg THEN 0 - n ELSE n

(***************************************************************************)
(* Values (the replies a handler returns) and store entries.               *)
(***************************************************************************)
Value(t, s, b, a) == [typ |-> t, str |-> s, bulk |-> b, array |-> a]
StringValue(s) == Value("string", s, <<>>, <<>>)
ErrorValue(s) == Value("error", s, <<>>, <<>>)
BulkValue(b) == Value("bulk", <<>>, b, <<>>)
NullValue == Value("null", <<>>, <<>>, <<>>)
ArrayValue(a) == Value("array", <<>>, <<>>, a)
NoValue == Value("", <<>>, <<>>, <<>>)

KeyValue(v, e) == [value |-> v, expiry |-> e]
\* what SETs[key] yields for a key the map does not hold
ZeroKeyValue == KeyValue(<<>>, NoExpiry)
MapGet(m, k) == IF k \in DOMAIN m THEN m[k] ELSE ZeroKeyValue
MapSet(m, k, kv) == (k :> kv) @@ m
MapDelete(m, k) == [x \in (DOMAIN m) \ {k} |-> m[x]]

\* time.Now().Add(time.Duration(v) * time.Millisecond)
ExpiryOf(t, v) == t + v * TicksPerMs

\* val.expiry != (time.Time{}) && time.Now().After(val.expiry)
\* a variant that compares the wrong way round: the entry counts as expired
\* before its expiry and as live after it
ExpiredBefore(kv, t) == kv.expiry # NoExpiry /\ t < kv.expiry

Expired(kv, t) == kv.expiry # NoExpiry /\ t > kv.expiry

(***************************************************************************)
(* Bounds of the model and the requests the clients send.                  *)
(***************************************************************************)
NConns == 2
MaxTime == 2
MaxSets == 2
MaxSetsConc == 2
MaxLength == 16400

Conns == 1..NConns

Request(cmd, args) == [cmd |-> cmd, args |-> args]
NoRequest == Request(<<>>, <<>>)

\* the keys "", "a", "ab"; the values "", "x", "y"; the milliseconds "0", "1"
SetRequests ==
    {Request(SET, <<<<>>, <<120>>>>),
     Request(SET, <<<<>>, <<121>>>>),
     Request(SET, <<<<97>>, <<120>>>>),
     Request(SET, <<<<97>>, <<121>>>>),
     Request(SET, <<<<97>>, <<>>>>),
     Request(SET, <<<<97, 98>>, <<120>>>>),
     Request(SET, <<<<97>>, <<120>>, PX, <<48>>>>),
     Request(SET, <<<<97>>, <<120>>, PX, <<49>>>>),
     Request(SET, <<<<97>>, <<>>, PX, <<48>>>>),
     Request(SET, <<<<97, 98>>, <<121>>, PX, <<48>>>>),
     Request(SET, <<<<97>>, <<120>>, <<101, 120>>, <<49>>>>),
     Request(<<115, 101, 116>>, <<<<97>>, <<120>>, PX>>),
     Request(SET, <<<<97>>>>),
     Request(SET, <<>>)}
GetRequests ==
    {Request(GET, <<k>>) : k \in {<<>>, <<97>>, <<97, 98>>}}
    \cup {Request(<<103, 101, 116>>, <<>>)}
SaveRequests == {Request(SAVE, <<>>)}
KeysRequests ==
    {Request(KEYS, <<p>>) : p \in {STAR, <<97>>, <<98>>}} \cup {Request(KEYS, <<>>)}
OtherRequests ==
    {Request(PING, <<>>), Request(PING, <<<<120>>>>),
     Request(ECHO, <<<<120>>>>), Request(ECHO, <<>>),
     Request(<<99, 111, 110, 102, 105, 103>>, <<GET, DIR>>),
     Request(CONFIG, <<<<103, 101, 116>>, DBFILENAME>>),
     Request(CONFIG, <<GET, <<120>>>>),
     Request(CONFIG, <<SET, DIR>>),
     Request(CONFIG, <<GET>>),
     Request(<<70, 79, 79>>, <<>>)}
Requests ==
    SetRequests \cup GetRequests \cup SaveRequests \cup KeysRequests \cup OtherRequests

\* what the clients send when several are served at once
ConcRequests ==
    {Request(SET, <<<<97>>, <<120>>>>),
     Request(SET, <<<<97, 98>>, <<121>>>>),
     Request(SET, <<<<97>>, <<121>>, PX, <<48>>>>),
     Request(SET, <<<<97>>, <<>>>>),
     Request(GET, <<<<97>>>>)}

(***************************************************************************)
(* State.                                                                  *)
(***************************************************************************)
VARIABLES
    SETs,      \* handler.go SETs: key -> KeyValue, for the keys the map holds
    SETsMu,    \* handler.go SETsMu: the connections inside Lock() .. Unlock()
    file,      \* the snapshot file at dir/dbfilename: [exists, bytes]
    disk,      \* the file system: "ok", "nodir" (the path cannot be opened or
               \* created) or "full" (files open, writes fail)
    now,       \* the clock, in ticks
    crashed,   \* the process ended on a run-time panic or fatal error
    pc,        \* where each connection's goroutine stands
    req,       \* the request each connection is serving
    loc,       \* the local variables of the handler each connection runs
    result,    \* the Value the handler returned, until it is written
    budget,    \* SET requests the clients have still to send
    lastSet,   \* history: key -> the entry the last finished store of SET wrote
    atSave,    \* history: [saved, map], the map as the last SAVE enumerated it
    overlap,   \* history: what was on its way on other connections during each request
    lengthIn,  \* a string length handed to lengthEncoding
    lengthOut  \* what lengthEncoding made of it, and readLengthEncoded of that

vars ==
    <<SETs, SETsMu, file, disk, now, crashed, pc, req, loc, result, budget,
      lastSet, atSave, overlap, lengthIn, lengthOut>>

\* the variables of the length codec, which no handler step touches
codec == <<lengthIn, lengthOut>>

\* the variables of the server, which the length codec does not touch
server ==
    <<SETs, SETsMu, file, disk, now, crashed, pc, req, loc, result, budget,
      lastSet, atSave, overlap>>

NoLength == [stage |-> "none", err |-> FALSE, bytes |-> <<>>, val |-> 0]

NoFile == [exists |-> FALSE, bytes |-> <<>>]

NoLocals ==
    [key |-> <<>>, value |-> <<>>, exValue |-> NoExpiry, t |-> 0,
     created |-> FALSE, loaded |-> FALSE, data |-> EmptyMap,
     val |-> ZeroKeyValue, count |-> 0, off |-> 0, deleted |-> FALSE]

TypeOK ==
    /\ DOMAIN SETs \subseteq {<<>>, <<97>>, <<97, 98>>}
    /\ SETsMu \subseteq Conns
    /\ file.exists \in BOOLEAN
    /\ disk \in {"ok", "nodir", "full"}
    /\ now \in 0..MaxTime
    /\ crashed \in BOOLEAN
    /\ DOMAIN pc = Conns

InitServer(idle, fs, n) ==
    /\ SETsMu = {}
    /\ disk \in fs
    /\ now = 0
    /\ crashed = FALSE
    /\ pc = [c \in Conns |-> IF c \in idle THEN "idle" ELSE "closed"]
    /\ req = [c \in Conns |-> NoRequest]
    /\ loc = [c \in Conns |-> NoLocals]
    /\ result = [c \in Conns |-> NoValue]
    /\ budget = n
    /\ atSave = [saved |-> FALSE, map |-> EmptyMap]
    /\ overlap = [c \in Conns |-> "none"]

InitWith(idle, fs, n) ==
    /\ InitServer(idle, fs, n)
    /\ SETs = EmptyMap
    /\ lastSet = EmptyMap
    /\ file = NoFile
    /\ lengthIn = 0
    /\ lengthOut = NoLength

\* one client, a working file system
Init == InitWith({1}, {"ok"}, MaxSets)

(***************************************************************************)
(* Steps shared by the handlers.                                           *)
(***************************************************************************)
args(c) == req[c].args
Command(c) == ToUpper(req[c].cmd)

\* a handler returns v: handleConnection holds it until writer.Write
Return(c, v) ==
    /\ result' = [result EXCEPT ![c] = v]
    /\ pc' = [pc EXCEPT ![c] = "write"]

Goto(c, label) ==
    /\ pc' = [pc EXCEPT ![c] = label]
    /\ UNCHANGED result

\* an index out of range in a handler, or a fatal error of the run time: no
\* recover anywhere, so the process ends and every connection with it.
Panic(c) ==
    /\ crashed' = TRUE
    /\ pc' = [d \in Conns |-> IF d = c THEN "panic"
                              ELSE IF pc[d] = "closed" THEN "closed" ELSE "dead"]
    /\ req' = [d \in Conns |-> IF d = c THEN req[c] ELSE NoRequest]
    /\ loc' = [d \in Conns |-> NoLocals]
    /\ result' = [d \in Conns |-> NoValue]
    /\ overlap' = [d \in Conns |-> "none"]
    /\ SETs' = EmptyMap
    /\ SETsMu' = {}
    /\ lastSet' = EmptyMap
    /\ UNCHANGED <<file, disk, now, budget, atSave>>

InHandler(d) == pc[d] \notin {"idle", "closed", "dead", "panic"}

Kind(r) == IF ToUpper(r.cmd) = SET THEN "sets" ELSE "other"
Join(a, b) ==
    IF a = "other" \/ b = "other" THEN "other"
    ELSE IF a = "sets" \/ b = "sets" THEN "sets" ELSE "none"
RECURSIVE JoinAll(_)
JoinAll(S) ==
    IF S = {} THEN "none"
    ELSE LET a == CHOOSE a \in S : TRUE IN Join(a, JoinAll(S \ {a}))

(***************************************************************************)
(* handleConnection (server.go): read a request, find its handler.         *)
(***************************************************************************)
RecvFrom(c, R) ==
    /\ pc[c] = "idle"
    /\ \E r \in R :
        /\ ToUpper(r.cmd) = SET => budget > 0
        /\ budget' = IF ToUpper(r.cmd) = SET THEN budget - 1 ELSE budget
        /\ req' = [req EXCEPT ![c] = r]
        /\ IF ToUpper(r.cmd) \in Handlers
           THEN /\ Goto(c, "call")
                /\ overlap' =
                    [d \in Conns |->
                        IF d = c
                        THEN JoinAll({Kind(req[e]) : e \in {e \in Conns \ {c} : InHandler(e)}})
                        ELSE IF InHandler(d) THEN Join(overlap[d], Kind(r))
                        ELSE overlap[d]]
           ELSE /\ Return(c, StringValue(<<>>))
                /\ UNCHANGED overlap
    /\ UNCHANGED <<SETs, SETsMu, file, disk, now, crashed, loc, lastSet, atSave>>
    /\ UNCHANGED codec

Recv(c) == RecvFrom(c, Requests)
RecvConc(c) == RecvFrom(c, ConcRequests)

\* resp.Read returns an error, the framing of the request being wrong:
\* conn.Close() and return, nothing written.
ReadError(c) ==
    /\ pc[c] = "idle"
    /\ pc' = [pc EXCEPT ![c] = "closed"]
    /\ UNCHANGED <<SETs, SETsMu, file, disk, now, crashed, req, loc, result, budget,
                   lastSet, atSave, overlap>>
    /\ UNCHANGED codec

\* writer.Write(result), and the loop goes back to read.
Write(c) ==
    /\ pc[c] = "write"
    /\ pc' = [pc EXCEPT ![c] = "idle"]
    /\ req' = [req EXCEPT ![c] = NoRequest]
    /\ loc' = [loc EXCEPT ![c] = NoLocals]
    /\ result' = [result EXCEPT ![c] = NoValue]
    /\ overlap' = [overlap EXCEPT ![c] = "none"]
    /\ UNCHANGED <<SETs, SETsMu, file, disk, now, crashed, budget, lastSet, atSave>>
    /\ UNCHANGED codec

\* time passes
Tick ==
    /\ ~crashed
    /\ now < MaxTime
    /\ now' = now + 1
    /\ UNCHANGED <<SETs, SETsMu, file, disk, crashed, pc, req, loc, result, budget,
                   lastSet, atSave, overlap>>
    /\ UNCHANGED codec

(***************************************************************************)
(* ping, echo, config (handler.go).                                        *)
(***************************************************************************)
ping(c) ==
    /\ pc[c] = "call" /\ Command(c) = PING
    /\ IF Len(args(c)) = 0 THEN Return(c, StringValue(PONG))
       ELSE Return(c, StringValue(args(c)[1]))
    /\ UNCHANGED <<SETs, SETsMu, file, disk, now, crashed, req, loc, budget,
                   lastSet, atSave, overlap>>
    /\ UNCHANGED codec

echo(c) ==
    /\ pc[c] = "call" /\ Command(c) = ECHO
    /\ IF Len(args(c)) = 0 THEN Panic(c)
       ELSE /\ Return(c, StringValue(args(c)[1]))
            /\ UNCHANGED <<SETs, SETsMu, file, disk, now, crashed, req, loc, budget,
                           lastSet, atSave, overlap>>
    /\ UNCHANGED codec

getDirConfig == ArrayValue(<<BulkValue(DIR), BulkValue(RDBMapDir)>>)
getDBFilenameConfig == ArrayValue(<<BulkValue(DBFILENAME), BulkValue(RDBMapDbfilename)>>)

config(c) ==
    /\ pc[c] = "call" /\ Command(c) = CONFIG
    /\ IF Len(args(c)) < 2 THEN Return(c, ErrorValue(ErrConfigArity))
       ELSE IF ToUpper(args(c)[1]) = GET
            THEN IF args(c)[2] = DIR THEN Return(c, getDirConfig)
                 ELSE IF args(c)[2] = DBFILENAME THEN Return(c, getDBFilenameConfig)
                 ELSE Return(c, ErrorValue(ErrConfigParams))
            ELSE Return(c, ErrorValue(ErrConfigParams))
    /\ UNCHANGED <<SETs, SETsMu, file, disk, now, crashed, req, loc, budget,
                   lastSet, atSave, overlap>>
    /\ UNCHANGED codec

(***************************************************************************)
(* The store's lock and map.  Go's map is not safe for writes from two     *)
(* goroutines at once: the run time either stops the process ("concurrent  *)
(* map writes") or one of the writes goes missing.                         *)
(***************************************************************************)
\* SETsMu.Lock() returns once nobody holds the lock.
\* a variant with no mutual exclusion: Lock never waits
MutexIgnored == TRUE

MutexFree == SETsMu = {}

Lock(c, label) ==
    /\ MutexFree
    /\ SETsMu' = SETsMu \cup {c}
    /\ Goto(c, label)

\* what a map write by c can come to, given who else is inside a write
MapWriteOutcomes(c) ==
    IF SETsMu \subseteq {c} THEN {"done"} ELSE {"done", "lost", "fatal"}

\* what a map read or a range by c, outside the lock, can come to: the run
\* time may find the write that is going on and end the process
MapReadOutcomes(c) ==
    IF SETsMu \subseteq {c} THEN {"done"} ELSE {"done", "fatal"}

(***************************************************************************)
(* set (handler.go).                                                       *)
(***************************************************************************)
set(c) ==
    /\ pc[c] = "call" /\ Command(c) = SET
    /\ IF Len(args(c)) < 2
       THEN /\ Return(c, ErrorValue(ErrSetArity))
            /\ UNCHANGED <<SETs, SETsMu, file, disk, now, crashed, req, loc, budget,
                           lastSet, atSave, overlap>>
       ELSE IF Len(args(c)) > 2 /\ Len(args(c)) < 4
       THEN Panic(c)     \* args[3] of three arguments: index out of range
       ELSE /\ loc' = [loc EXCEPT ![c] =
                        [NoLocals EXCEPT
                            !.key = args(c)[1],
                            !.value = args(c)[2],
                            !.t = now,
                            !.exValue =
                                IF Len(args(c)) > 2 /\ args(c)[3] = PX
                                THEN ExpiryOf(now, Atoi(args(c)[4]))
                                ELSE NoExpiry]]
            /\ Goto(c, IF Len(args(c)) > 2 THEN "set_lock1" ELSE "set_lock2")
            /\ UNCHANGED <<SETs, SETsMu, file, disk, now, crashed, req, budget,
                           lastSet, atSave, overlap>>
    /\ UNCHANGED codec

\* lines 59-63: the first store, of the value with no expiry
SetLock1(c) ==
    /\ pc[c] = "set_lock1"
    /\ Lock(c, "set_store1")
    /\ UNCHANGED <<SETs, file, disk, now, crashed, req, loc, budget, lastSet,
                   atSave, overlap>>
    /\ UNCHANGED codec

SetStore1(c) ==
    /\ pc[c] = "set_store1"
    /\ \E o \in MapWriteOutcomes(c) :
        IF o = "fatal" THEN Panic(c)
        ELSE /\ SETs' = IF o = "done"
                        THEN MapSet(SETs, loc[c].key, KeyValue(loc[c].value, NoExpiry))
                        ELSE SETs
             /\ SETsMu' = SETsMu \ {c}
             /\ Goto(c, "set_lock2")
             /\ UNCHANGED <<file, disk, now, crashed, req, loc, budget, lastSet,
                            atSave, overlap>>
    /\ UNCHANGED codec

\* lines 66-71: the store of the value with its expiry
SetLock2(c) ==
    /\ pc[c] = "set_lock2"
    /\ Lock(c, "set_store2")
    /\ UNCHANGED <<SETs, file, disk, now, crashed, req, loc, budget, lastSet,
                   atSave, overlap>>
    /\ UNCHANGED codec

SetStore2(c) ==
    /\ pc[c] = "set_store2"
    /\ \E o \in MapWriteOutcomes(c) :
        IF o = "fatal" THEN Panic(c)
        ELSE /\ SETs' = IF o = "done"
                        THEN MapSet(SETs, loc[c].key, KeyValue(loc[c].value, loc[c].exValue))
                        ELSE SETs
             /\ SETsMu' = SETsMu \ {c}
             /\ lastSet' = MapSet(lastSet, loc[c].key,
                                  KeyValue(loc[c].value, loc[c].exValue))
             /\ Return(c, StringValue(OK))
             /\ UNCHANGED <<file, disk, now, crashed, req, loc, budget, atSave, overlap>>
    /\ UNCHANGED codec

(***************************************************************************)
(* initRDB (persistence.go), called by save and by get.                    *)
(***************************************************************************)
Max(a, b) == IF a > b THEN a ELSE b

\* a write of `bytes` at offset off of a file holding `old`
Overlay(old, off, bytes) ==
    [i \in 1..Max(Len(old), off + Len(bytes)) |->
        IF i > off /\ i <= off + Len(bytes) THEN bytes[i - off]
        ELSE IF i <= Len(old) THEN old[i] ELSE 0]

\* a variant of save's reply that reports what initRDB did
SaveResultChecked(c) ==
    IF disk = "ok" /\ file.exists THEN StringValue(OK) ELSE ErrorValue(ErrReadFile)

\* save's reply, whatever initRDB did
SaveResult(c) == StringValue(OK)

\* initRDB is over: save returns its reply, get goes on to read the file.
AfterRDB(c) ==
    IF Command(c) = SAVE THEN Return(c, SaveResult(c)) ELSE Goto(c, "get_read")

\* os.OpenFile(path, O_RDWR|O_CREATE|O_TRUNC): the file now exists and is
\* empty, or initRDB returns on the error.  Steps 1-4 follow into the writer's
\* buffer, with len(SETs) read outside the lock.
RDBOpen(c) ==
    /\ pc[c] = "rdb_open"
    /\ IF disk = "nodir"
       THEN AfterRDB(c) /\ UNCHANGED <<file, loc>>
       ELSE /\ file' = [exists |-> TRUE, bytes |-> <<>>]
            /\ loc' = [loc EXCEPT ![c].count = Cardinality(DOMAIN SETs)]
            /\ Goto(c, "rdb_body")
    /\ UNCHANGED <<SETs, SETsMu, disk, now, crashed, req, budget, lastSet,
                   atSave, overlap>>
    /\ UNCHANGED codec

\* steps 5-6 and the first Flush: range SETs, outside the lock as well, the
\* end marker; the bytes reach the file at the writer's offset 0.
RDBWrite(c) ==
    /\ pc[c] = "rdb_body"
    /\ \E o \in MapReadOutcomes(c) :
        IF o = "fatal" THEN Panic(c)
        ELSE /\ \E order \in Orders(SETs) :
                  LET body == RDBBody(loc[c].count, SETs, order)
                  IN  IF disk = "full"
                      THEN UNCHANGED <<file, loc>>
                      ELSE /\ file' = [file EXCEPT !.bytes = Overlay(file.bytes, 0, body)]
                           /\ loc' = [loc EXCEPT ![c].off = Len(body)]
             /\ atSave' = IF Command(c) = SAVE
                          THEN [saved |-> TRUE, map |-> SETs] ELSE atSave
             /\ Goto(c, "rdb_sum")
             /\ UNCHANGED <<SETs, SETsMu, disk, now, crashed, req, budget, lastSet,
                            overlap>>
    /\ UNCHANGED codec

\* step 7: the checksum of the file as it is read back, written after the body.
RDBSum(c) ==
    /\ pc[c] = "rdb_sum"
    /\ IF disk = "full"
       THEN UNCHANGED file
       ELSE file' = [file EXCEPT !.bytes =
                        Overlay(file.bytes, loc[c].off, calculateCRC64Checksum(file.bytes))]
    /\ AfterRDB(c)
    /\ UNCHANGED <<SETs, SETsMu, disk, now, crashed, req, loc, budget, lastSet,
                   atSave, overlap>>
    /\ UNCHANGED codec

save(c) ==
    /\ pc[c] = "call" /\ Command(c) = SAVE
    /\ Goto(c, "rdb_open")
    /\ UNCHANGED <<SETs, SETsMu, file, disk, now, crashed, req, loc, budget,
                   lastSet, atSave, overlap>>
    /\ UNCHANGED codec

(***************************************************************************)
(* get (handler.go).                                                       *)
(***************************************************************************)
\* readRDBFile(path): opening fails when there is no file.
LoadFile == IF file.exists THEN readRDBFile(file.bytes, now) ELSE Fail(0)

\* a variant of get that runs initRDB whether or not the file exists
getAlwaysSaves(c) ==
    /\ pc[c] = "call" /\ Command(c) = GET
    /\ IF Len(args(c)) = 0 THEN Panic(c)
       ELSE /\ loc' = [loc EXCEPT ![c] =
                        [NoLocals EXCEPT !.key = args(c)[1], !.t = now,
                                         !.created = ~file.exists]]
            /\ Goto(c, "rdb_open")
            /\ UNCHANGED <<SETs, SETsMu, file, disk, now, crashed, req, budget,
                           lastSet, atSave, overlap>>
    /\ UNCHANGED codec

\* lines 76-86: args[0], os.Stat, and initRDB when the file does not exist
get(c) ==
    /\ pc[c] = "call" /\ Command(c) = GET
    /\ IF Len(args(c)) = 0 THEN Panic(c)
       ELSE /\ loc' = [loc EXCEPT ![c] =
                        [NoLocals EXCEPT !.key = args(c)[1], !.t = now,
                                         !.created = ~file.exists]]
            /\ Goto(c, IF file.exists THEN "get_read" ELSE "rdb_open")
            /\ UNCHANGED <<SETs, SETsMu, file, disk, now, crashed, req, budget,
                           lastSet, atSave, overlap>>
    /\ UNCHANGED codec

\* lines 88-97 and 112-113: read the file; a non-empty value bound there is the reply
GetRead(c) ==
    /\ pc[c] = "get_read"
    /\ LET r == LoadFile
           key == loc[c].key
       IN  IF r.err
           THEN Return(c, ErrorValue(ErrReadFile)) /\ UNCHANGED loc
           ELSE /\ loc' = [loc EXCEPT ![c].data = r.val, ![c].loaded = TRUE]
                /\ IF key \in DOMAIN r.val /\ r.val[key] # <<>>
                   THEN Return(c, BulkValue(r.val[key]))
                   ELSE Goto(c, "get_mem")
    /\ UNCHANGED <<SETs, SETsMu, file, disk, now, crashed, req, budget, lastSet,
                   atSave, overlap>>
    /\ UNCHANGED codec

\* lines 99-103 and 109-110: SETs[key], read without the lock, and its expiry
GetMem(c) ==
    /\ pc[c] = "get_mem"
    /\ \E o \in MapReadOutcomes(c) :
        IF o = "fatal" THEN Panic(c)
        ELSE /\ LET val == MapGet(SETs, loc[c].key)
                IN  /\ loc' = [loc EXCEPT ![c].val = val]
                    /\ IF val.value = <<>> THEN Return(c, NullValue)
                       ELSE IF Expired(val, now) THEN Goto(c, "get_lock")
                       ELSE Return(c, BulkValue(val.value))
             /\ UNCHANGED <<SETs, SETsMu, file, disk, now, crashed, req, budget,
                            lastSet, atSave, overlap>>
    /\ UNCHANGED codec

\* lines 104-107: delete(SETs, key) under the lock
GetLock(c) ==
    /\ pc[c] = "get_lock"
    /\ Lock(c, "get_delete")
    /\ UNCHANGED <<SETs, file, disk, now, crashed, req, loc, budget, lastSet,
                   atSave, overlap>>
    /\ UNCHANGED codec

GetDelete(c) ==
    /\ pc[c] = "get_delete"
    /\ \E o \in MapWriteOutcomes(c) :
        IF o = "fatal" THEN Panic(c)
        ELSE /\ SETs' = IF o = "done" THEN MapDelete(SETs, loc[c].key) ELSE SETs
             /\ SETsMu' = SETsMu \ {c}
             /\ loc' = [loc EXCEPT ![c].deleted = TRUE]
             /\ Return(c, NullValue)
             /\ UNCHANGED <<file, disk, now, crashed, req, budget, lastSet, atSave,
                            overlap>>
    /\ UNCHANGED codec

(***************************************************************************)
(* keys (handler.go).                                                      *)
(***************************************************************************)
\* a variant that lists a key only when it is the pattern itself
KeyMatchesExact(key, pattern) == IF pattern # STAR THEN key = pattern ELSE TRUE

\* lines 147-153: which keys of the file are listed
KeyMatches(key, pattern) == IF pattern # STAR THEN Contains(key, pattern) ELSE TRUE

\* the orders in which `range data` can yield the keys of S
Perms(S) ==
    {o \in [1..Cardinality(S) -> S] : \A i, j \in DOMAIN o : i # j => o[i] # o[j]}

keys(c) ==
    /\ pc[c] = "call" /\ Command(c) = KEYS
    /\ IF Len(args(c)) = 0 THEN Panic(c)
       ELSE /\ LET r == LoadFile
               IN  IF r.err
                   THEN Return(c, ErrorValue(ErrReadFile)) /\ UNCHANGED loc
                   ELSE /\ loc' = [loc EXCEPT ![c] =
                                        [NoLocals EXCEPT !.data = r.val, !.loaded = TRUE,
                                                         !.t = now]]
                        /\ \E o \in Perms({k \in DOMAIN r.val : KeyMatches(k, args(c)[1])}) :
                            Return(c, ArrayValue([i \in DOMAIN o |-> StringValue(o[i])]))
            /\ UNCHANGED <<SETs, SETsMu, file, disk, now, crashed, req, budget,
                           lastSet, atSave, overlap>>
    /\ UNCHANGED codec

(***************************************************************************)
(* The specifications.                                                     *)
(***************************************************************************)
Step(c) ==
    \/ Recv(c) \/ ReadError(c) \/ Write(c)
    \/ ping(c) \/ echo(c) \/ config(c)
    \/ set(c) \/ SetLock1(c) \/ SetStore1(c) \/ SetLock2(c) \/ SetStore2(c)
    \/ save(c) \/ RDBOpen(c) \/ RDBWrite(c) \/ RDBSum(c)
    \/ get(c) \/ GetRead(c) \/ GetMem(c) \/ GetLock(c) \/ GetDelete(c)
    \/ keys(c)

Next == Tick \/ \E c \in Conns : Step(c)

\* one client at a time, a working file system
Spec == Init /\ [][Next]_vars

\* one client, any file system
InitIO == InitWith({1}, {"ok", "nodir", "full"}, MaxSets)
SpecIO == InitIO /\ [][Next]_vars

\* every client at once sending SET and GET, a working file system
StepConc(c) ==
    \/ RecvConc(c) \/ Write(c)
    \/ set(c) \/ SetLock1(c) \/ SetStore1(c) \/ SetLock2(c) \/ SetStore2(c)
    \/ RDBOpen(c) \/ RDBWrite(c) \/ RDBSum(c)
    \/ get(c) \/ GetRead(c) \/ GetMem(c) \/ GetLock(c) \/ GetDelete(c)

NextConc == Tick \/ \E c \in Conns : StepConc(c)
InitConc == InitWith(Conns, {"ok"}, MaxSetsConc)
SpecConc == InitConc /\ [][NextConc]_vars

(***************************************************************************)
(* The server started on a snapshot file that cannot be read: a snapshot   *)
(* of the store {a -> x} cut short at any byte, or with one of its markers *)
(* overwritten, or no file in a directory that cannot be written.          *)
(***************************************************************************)
GoodStore == (<<97>> :> KeyValue(<<120>>, NoExpiry))
GoodFile ==
    RDBBody(1, GoodStore, <<<<97>>>>)
        \o calculateCRC64Checksum(RDBBody(1, GoodStore, <<<<97>>>>))

HeaderLen == Len(RDBHeader(1))
Overwritten(b, i, v) == [b EXCEPT ![i] = v]

TruncatedFiles == {SubSeq(GoodFile, 1, i) : i \in 0..(Len(GoodFile) - 1)}
BadMagicFile == Overwritten(GoodFile, 1, 0)
NoDBSectionFile == Overwritten(GoodFile, HeaderLen - 4, 0)
NoHashtableSizeFile == Overwritten(GoodFile, HeaderLen - 2, 0)
UnknownTypeFile == Overwritten(GoodFile, HeaderLen + 1, 7)
NoEOFFile == Overwritten(GoodFile, Len(GoodFile) - 8, 0)
BadFiles ==
    TruncatedFiles \cup {BadMagicFile, NoDBSectionFile, NoHashtableSizeFile,
                         UnknownTypeFile, NoEOFFile}

FileRequests ==
    {Request(GET, <<<<97>>>>),
     Request(KEYS, <<STAR>>),
     Request(SET, <<<<97>>, <<121>>>>)}

RecvFiles(c) == RecvFrom(c, FileRequests)

StepFiles(c) ==
    \/ RecvFiles(c) \/ Write(c)
    \/ set(c) \/ SetLock2(c) \/ SetStore2(c)
    \/ RDBOpen(c) \/ RDBWrite(c) \/ RDBSum(c)
    \/ get(c) \/ GetRead(c) \/ GetMem(c)
    \/ keys(c)

NextFiles == \E c \in Conns : StepFiles(c)
InitFiles ==
    /\ InitServer({1}, {"ok", "nodir"}, MaxSets)
    /\ SETs = EmptyMap
    /\ lastSet = EmptyMap
    /\ file \in {NoFile} \cup {[exists |-> TRUE, bytes |-> b] : b \in BadFiles}
    /\ lengthIn = 0
    /\ lengthOut = NoLength
SpecFiles == InitFiles /\ [][NextFiles]_vars

(***************************************************************************)
(* SAVE of a store of any size up to MaxEntries: the store as MaxEntries   *)
(* SETs of distinct keys leave it, one client sending SAVE.                *)
(***************************************************************************)
MaxEntries == 256

\* the i-th of the keys "aa", "ab", .. and the store holding the first n
KeyOf(i) == <<97 + (i \div 26), 97 + (i % 26)>>
StoreOf(n) == [k \in {KeyOf(i) : i \in 1..n} |-> KeyValue(<<120>>, NoExpiry)]

RecvCount(c) == RecvFrom(c, SaveRequests)

StepCount(c) ==
    \/ RecvCount(c) \/ Write(c)
    \/ save(c) \/ RDBOpen(c) \/ RDBWrite(c) \/ RDBSum(c)

NextCount == \E c \in Conns : StepCount(c)
InitCount ==
    /\ InitServer({1}, {"ok"}, 0)
    /\ \E n \in 0..MaxEntries : SETs = StoreOf(n) /\ lastSet = StoreOf(n)
    /\ file = NoFile
    /\ lengthIn = 0
    /\ lengthOut = NoLength
SpecCount == InitCount /\ [][NextCount]_vars

(***************************************************************************)
(* The length codec on its own: lengthEncoding of a length, then           *)
(* readLengthEncoded of the bytes it returned.                             *)
(***************************************************************************)
EncodeLength ==
    /\ lengthOut.stage = "none"
    /\ LET r == lengthEncoding(lengthIn)
       IN  lengthOut' = [stage |-> "encoded", err |-> r.err, bytes |-> r.bytes, val |-> 0]
    /\ UNCHANGED <<lengthIn, server>>

DecodeLength ==
    /\ lengthOut.stage = "encoded" /\ ~lengthOut.err
    /\ LET d == readLengthEncoded(lengthOut.bytes, 1)
       IN  lengthOut' = [lengthOut EXCEPT !.stage = "decoded", !.err = d.err,
                                          !.val = IF d.err THEN 0 ELSE d.val]
    /\ UNCHANGED <<lengthIn, server>>

NextLength == EncodeLength \/ DecodeLength
InitLength ==
    /\ InitServer({}, {"ok"}, 0)
    /\ SETs = EmptyMap
    /\ lastSet = EmptyMap
    /\ file = NoFile
    /\ lengthIn \in 0..MaxLength
    /\ lengthOut = NoLength
SpecLength == InitLength /\ [][NextLength]_vars

(***************************************************************************)
(* What the claims are stated with.                                        *)
(***************************************************************************)
\* the key -> value mapping a store holds
ValuesOf(m) == [k \in DOMAIN m |-> m[k].value]

\* no entry of m has an expiry that time t has passed
AllNonExpired(m, t) == \A k \in DOMAIN m : m[k].expiry = NoExpiry \/ t <= m[k].expiry

\* connection c is returning from GET k, k its first argument
ReturnsGet(c) == pc[c] = "write" /\ Command(c) = GET /\ Len(args(c)) >= 1

\* the file GET c read binds its key to a non-empty value
SnapshotBinds(c) ==
    /\ loc[c].key \in DOMAIN loc[c].data
    /\ loc[c].data[loc[c].key] # <<>>

\* the bytes a Save of store m can leave in the file
Snapshots(m) ==
    {RDBBody(Cardinality(DOMAIN m), m, o)
        \o calculateCRC64Checksum(RDBBody(Cardinality(DOMAIN m), m, o)) : o \in Orders(m)}

\* C1: Save followed at once by Load, as GET runs them when there is no file,
\* returns exactly the keys and values of a store whose entries are all
\* non-expired.
C1_RoundTrip ==
    [][\A c \in Conns :
          (/\ pc[c] = "get_read" /\ pc'[c] # "get_read"
           /\ loc[c].created
           /\ AllNonExpired(SETs, now))
          => (loc'[c].loaded /\ loc'[c].data = ValuesOf(SETs))]_vars

\* C3: once SAVE has run with k bound to a non-empty value v1 with no expiry,
\* every GET k replies bulk v1, whatever was SET since, until the next SAVE.
C3_StaleSnapshot ==
    \A c \in Conns :
        (/\ ReturnsGet(c)
         /\ atSave.saved
         /\ args(c)[1] \in DOMAIN atSave.map
         /\ atSave.map[args(c)[1]].value # <<>>
         /\ atSave.map[args(c)[1]].expiry = NoExpiry)
        => result[c] = BulkValue(atSave.map[args(c)[1]].value)

\* a request with fewer arguments than its handler needs
TooFew(c) ==
    \/ Command(c) \in {ECHO, GET, KEYS} /\ Len(args(c)) < 1
    \/ Command(c) \in {SET, CONFIG} /\ Len(args(c)) < 2

\* C5: a request with too few arguments is answered with an error reply and
\* its connection goes on being served.
C5_Arity ==
    \A c \in Conns :
        TooFew(c) =>
            /\ pc[c] # "panic"
            /\ pc[c] = "write" => result[c].typ = "error"

\* C6: a SET with at least two arguments replies OK and leaves the key bound
\* to the value, with the expiry now + milliseconds exactly when the third
\* argument is "px" and a fourth is there, and with no expiry otherwise.
C6_SetResult ==
    \A c \in Conns :
        (Command(c) = SET /\ Len(args(c)) >= 2) =>
            /\ pc[c] # "panic"
            /\ pc[c] = "write" =>
                /\ result[c] = StringValue(OK)
                /\ args(c)[1] \in DOMAIN SETs
                /\ SETs[args(c)[1]] =
                    KeyValue(args(c)[2],
                             IF Len(args(c)) >= 4 /\ args(c)[3] = PX
                             THEN loc[c].t + Atoi(args(c)[4]) * TicksPerMs
                             ELSE NoExpiry)

\* C7: when the snapshot binds k to nothing, or to the empty string, GET k
\* replies the bulk value of the store's entry for k if that entry is not
\* expired, and Null only if the store has no entry for k or it is expired.
C7_Fallback ==
    \A c \in Conns :
        (ReturnsGet(c) /\ loc[c].loaded /\ ~SnapshotBinds(c)) =>
            LET k == args(c)[1]
            IN  /\ (/\ k \in DOMAIN SETs
                    /\ ~loc[c].deleted
                    /\ (SETs[k].expiry = NoExpiry \/ now <= SETs[k].expiry))
                   => result[c] = BulkValue(SETs[k].value)
                /\ result[c] = NullValue => k \notin DOMAIN SETs

\* C8: a GET k that found no snapshot file returns with the file there and
\* encoding the store, and replies the bulk value of k's entry when that entry
\* is not expired.
C8_Creation ==
    \A c \in Conns :
        (ReturnsGet(c) /\ loc[c].created) =>
            LET k == args(c)[1]
                store == IF loc[c].deleted THEN MapSet(SETs, k, loc[c].val) ELSE SETs
            IN  /\ file.exists
                /\ file.bytes \in Snapshots(store)
                /\ (/\ k \in DOMAIN store
                    /\ (store[k].expiry = NoExpiry \/ now <= store[k].expiry))
                   => result[c] = BulkValue(store[k].value)

\* p occurs in k as a run of consecutive bytes
IsSubstring(p, k) ==
    \E i \in 0..Len(k) :
        /\ i + Len(p) <= Len(k)
        /\ \A j \in 1..Len(p) : k[i + j] = p[j]

\* connection c is returning from KEYS p with the file read
ReturnsKeys(c) ==
    pc[c] = "write" /\ Command(c) = KEYS /\ Len(args(c)) >= 1 /\ loc[c].loaded

\* the keys the file binds when it is read at time t
FileKeys(t) == DOMAIN readRDBFile(file.bytes, t).val

\* C9: KEYS p, when the file can be read, replies an array of strings holding
\* once each exactly the keys the file binds as Load reads it, all of them for
\* p = "*" and otherwise those that contain p; the store plays no part.
C9_KeysScope ==
    \A c \in Conns :
        ReturnsKeys(c) =>
            LET p == args(c)[1]
                listed == {result[c].array[i].str : i \in DOMAIN result[c].array}
            IN  /\ result[c].typ = "array"
                /\ \A i \in DOMAIN result[c].array : result[c].array[i].typ = "string"
                /\ Cardinality(listed) = Len(result[c].array)
                /\ listed = {k \in FileKeys(loc[c].t) : p = STAR \/ IsSubstring(p, k)}

\* C9 happens: after SET a, SAVE, SET ab, the reply to KEYS a lists a alone
\* although the store holds ab as well.
C9_Witness ==
    \E c \in Conns :
        /\ ReturnsKeys(c)
        /\ args(c)[1] = <<97>>
        /\ <<97, 98>> \in DOMAIN SETs
        /\ <<97, 98>> \notin FileKeys(loc[c].t)
        /\ result[c] = ArrayValue(<<StringValue(<<97>>)>>)

\* connection c is inside SAVE, from the call of the handler to its reply
InSave(c) == Command(c) = SAVE /\ pc[c] \in {"call", "rdb_open", "rdb_body", "rdb_sum"}

\* C10: SAVE replies OK whether or not the file could be opened and written,
\* and no step of SAVE changes the store.
C10_SaveReply ==
    [][\A c \in Conns :
          InSave(c) =>
              /\ SETs' = SETs
              /\ pc'[c] # "panic"
              /\ pc'[c] = "write" => result'[c] = StringValue(OK)]_vars

\* C10 happens: SAVE has replied OK with a non-empty store and no file, the
\* directory being one that cannot be opened.
C10_Witness ==
    \E c \in Conns :
        /\ pc[c] = "write" /\ Command(c) = SAVE
        /\ disk = "nodir" /\ ~file.exists
        /\ SETs # EmptyMap
        /\ result[c] = StringValue(OK)

\* connection c is returning from a GET k that entered its handler after the
\* expiry of the last SET of k had passed
ReturnsGetPastExpiry(c) ==
    /\ ReturnsGet(c)
    /\ args(c)[1] \in DOMAIN lastSet
    /\ lastSet[args(c)[1]].expiry # NoExpiry
    /\ loc[c].t > lastSet[args(c)[1]].expiry

InSetOf(d, k) ==
    /\ pc[d] \in {"set_lock1", "set_store1", "set_lock2", "set_store2"}
    /\ loc[d].key = k

\* connection c has a SET to reply to, and only SETs have been on their way
\* since its request came in
ReturnsSetAmongSets(c) ==
    /\ pc[c] = "write" /\ Command(c) = SET /\ Len(args(c)) >= 2
    /\ overlap[c] # "other"

\* the connections with a SET to reply to
AtWriteSets == {e \in Conns : pc[e] = "write" /\ Command(e) = SET /\ Len(args(e)) >= 2}

\* every SET sent so far is one of those, each connection having run one
AllSetsReturned == budget + Cardinality(AtWriteSets) = MaxSetsConc

\* and they are SETs of keys that all differ
DistinctKeys == \A d, e \in AtWriteSets : d # e => args(d)[1] # args(e)[1]

\* the SETs that ran together have all replied OK and the store holds what
\* they set: the key of c with the value and expiry of its last SET, unless a
\* SET of that key is still on its way, and with those of c's own SET when
\* the SETs were of distinct keys, one a connection
NoLostUpdate(c) ==
    ReturnsSetAmongSets(c) =>
        /\ result[c] = StringValue(OK)
        /\ args(c)[1] \in DOMAIN SETs
        /\ args(c)[1] \in DOMAIN lastSet
        /\ (\E d \in Conns : InSetOf(d, args(c)[1])) \/ SETs[args(c)[1]] = lastSet[args(c)[1]]
        /\ (AllSetsReturned /\ DistinctKeys) =>
                SETs[args(c)[1]] = KeyValue(loc[c].value, loc[c].exValue)

\* connection c is returning from a GET k that read the file, and no other
\* request has been on its way since the GET came in
ReturnsGetAlone(c) == ReturnsGet(c) /\ overlap[c] = "none" /\ loc[c].loaded

\* the store's entry for the key of GET c as the GET found it
HadEntry(c) == loc[c].deleted \/ loc[c].key \in DOMAIN SETs
EntryOf(c) == IF loc[c].deleted THEN loc[c].val ELSE SETs[loc[c].key]

C13_LengthCodec ==
    /\ lengthOut.stage = "encoded" =>
        IF lengthIn >= 16384
        THEN lengthOut.err /\ lengthOut.bytes = <<>>
        ELSE /\ ~lengthOut.err
             /\ Len(lengthOut.bytes) = (IF lengthIn <= 63 THEN 1 ELSE 2)
             /\ lengthIn >= 64 =>
                    /\ lengthOut.bytes[1] \div 64 = 1
                    /\ \A i \in 1..2 : lengthOut.bytes[i] \in 0..255
    /\ lengthOut.stage = "decoded" => (~lengthOut.err /\ lengthOut.val = lengthIn)

\* C13 happens: the longest length that can be encoded, 16383, has gone
\* through both functions as the two bytes 0x7F 0xFF.
C13_Witness ==
    /\ lengthIn = 16383
    /\ lengthOut.stage = "decoded"
    /\ lengthOut.bytes = <<127, 255>>
    /\ lengthOut.val = 16383

\* C14: a SET k v PX n moves the store's entry for k in one step to (v, now +
\* n): no GET of another connection comes to read the store while k is bound
\* to v with no expiry by that SET.
C14_AtomicReplace ==
    \A c, d \in Conns :
        (/\ c # d
         /\ pc[c] = "set_lock2" /\ loc[c].exValue # NoExpiry
         /\ pc[d] = "get_mem" /\ loc[d].key = loc[c].key
         /\ (loc[c].key \in DOMAIN lastSet
                => lastSet[loc[c].key] # KeyValue(loc[c].value, NoExpiry)))
        => MapGet(SETs, loc[c].key) # KeyValue(loc[c].value, NoExpiry)

\* C15: GET deletes k only if the entry the store holds at the moment of the
\* deletion is expired: when GET has the lock and is about to delete, the
\* entry of k is one whose expiry has passed.
C15_LockedExpiry ==
    \A c \in Conns :
        (pc[c] = "get_delete" /\ loc[c].key \in DOMAIN SETs) =>
            /\ SETs[loc[c].key].expiry # NoExpiry
            /\ SETs[loc[c].key].expiry < now

\* C16: the count a Save writes and the entries it enumerates are those of
\* the store at one instant: between reading the size and enumerating, the
\* number of entries of the store does not change.
C16_PointInTime ==
    \A c \in Conns :
        pc[c] = "rdb_body" => loc[c].count = Cardinality(DOMAIN SETs)

\* C20: a GET or KEYS that runs while another connection writes the snapshot
\* never replies with an error.
C20_WholeFiles ==
    \A c \in Conns :
        (/\ pc[c] = "write" /\ Command(c) \in {GET, KEYS} /\ Len(args(c)) >= 1
         /\ overlap[c] = "other")
        => result[c].typ # "error"

\* connection c is at the step of GET or KEYS that reads the snapshot file
ReadsFile(c) ==
    \/ pc[c] = "get_read"
    \/ pc[c] = "call" /\ Command(c) = KEYS /\ Len(args(c)) >= 1

\* the snapshot file is not there or is one of the files that do not parse
Unreadable == ~file.exists \/ file.bytes \in BadFiles

\* C11: when the snapshot file cannot be opened or does not parse, GET and
\* KEYS reply with an error, the store stays as it is, and the connection goes
\* back to reading requests once the reply is written.
C11_Unreadable ==
    [][\A c \in Conns :
          /\ (ReadsFile(c) /\ pc'[c] # pc[c] /\ Unreadable) =>
                /\ pc'[c] = "write"
                /\ result'[c].typ = "error"
                /\ SETs' = SETs
                /\ ~crashed'
          /\ (pc[c] = "write" /\ result[c].typ = "error" /\ pc'[c] # pc[c]) =>
                pc'[c] = "idle"]_vars

\* C11 happens: with a non-empty store, GET has its error reply to write for
\* a file whose magic is wrong.
C11_Witness ==
    \E c \in Conns :
        /\ pc[c] = "write" /\ Command(c) = GET
        /\ file.exists /\ file.bytes = BadMagicFile
        /\ SETs # EmptyMap
        /\ result[c] = ErrorValue(ErrReadFile)

\* C12: a request whose framing is wrong closes the connection with nothing
\* written then or later; an unknown verb gets one empty reply and the loop
\* reads on; no command that was dispatched ends the loop.
C12_Lifecycle ==
    [][\A c \in Conns :
          /\ (pc[c] = "idle" /\ pc'[c] = "closed") => result'[c] = NoValue
          /\ pc[c] = "closed" => (pc'[c] = "closed" /\ result'[c] = NoValue)
          /\ (pc[c] = "idle" /\ pc'[c] # pc[c] /\ ToUpper(req'[c].cmd) \notin Handlers
                /\ req'[c] # NoRequest)
             => (pc'[c] = "write" /\ result'[c] = StringValue(<<>>))
          /\ (pc[c] = "write" /\ pc'[c] # pc[c]) => pc'[c] = "idle"
          /\ (pc[c] \notin {"idle", "closed", "write"} /\ pc'[c] # pc[c])
             => pc'[c] \notin {"closed", "panic", "dead"}]_vars

\* connection c takes a step of initRDB, called by SAVE or by a GET that found
\* no file
WritesFile(c) ==
    /\ pc[c] \in {"rdb_open", "rdb_body", "rdb_sum"}
    /\ Command(c) = SAVE \/ (Command(c) = GET /\ loc[c].created)

\* connection c takes one of set's two stores, or get's delete of an expired entry
WritesStore(c) ==
    \/ Command(c) = SET /\ pc[c] \in {"set_store1", "set_store2"}
    \/ Command(c) = GET /\ pc[c] = "get_delete"

\* C17: the file changes only in a step of initRDB run by SAVE or by a GET that
\* found the file absent, and of no other command; the store is written only
\* by a store of SET and by GET's delete of an expired entry, never by Load,
\* SAVE or KEYS.  (A step that ends the process writes to neither: the store
\* goes with the process, the file stays.)
C17_Frame ==
    [][/\ file' # file => \E c \in Conns : pc'[c] # pc[c] /\ WritesFile(c)
       /\ (SETs' # SETs /\ ~crashed') =>
             \E c \in Conns : pc'[c] # pc[c] /\ WritesStore(c)]_vars

\* a GET that found the file present replies while the file is not a snapshot
\* of the store, which holds an entry
C17_Witness ==
    \E c \in Conns :
        /\ ReturnsGet(c) /\ ~loc[c].created
        /\ file.exists /\ DOMAIN SETs # {}
        /\ file.bytes \notin Snapshots(SETs)

\* where the DB section of a readable file starts: its marker, the DB index,
\* the hashtable-size marker, the count, the expire count, then the entries
SectionAt(b) == readMetadata(b, verifyHeader(b, 1).pos).pos
DeclaredCount(b) == b[SectionAt(b) + 3]
EntriesAt(b) == SectionAt(b) + 5

\* the entry encoded at p: whether it has the expiry marker, its timestamp,
\* its key and value, and where the next one starts
EntryAt(b, p) ==
    IF b[p] = KEYVALUE_EXPIRY
    THEN LET e == readTimestamp(b, p + 1)
             kv == readPair(b, e.pos + 1)
         IN  [marked |-> TRUE, expiry |-> e.val, key |-> kv.val[1],
              value |-> kv.val[2], pos |-> kv.pos]
    ELSE LET kv == readPair(b, p + 1)
         IN  [marked |-> FALSE, expiry |-> 0, key |-> kv.val[1],
              value |-> kv.val[2], pos |-> kv.pos]

\* the n entries encoded from p on
RECURSIVE EntriesFrom(_, _, _)
EntriesFrom(b, p, n) ==
    IF n = 0 THEN <<>>
    ELSE LET e == EntryAt(b, p) IN <<e>> \o EntriesFrom(b, e.pos, n - 1)

\* what a Load at time t is to return: key -> value of the declared entries
\* that have no expiry marker or whose timestamp t has not passed
LiveEntries(b, t) ==
    LET es == EntriesFrom(b, EntriesAt(b), DeclaredCount(b))
        live == {i \in DOMAIN es : ~es[i].marked \/ ~(t > es[i].expiry)}
    IN  [k \in {es[i].key : i \in live} |->
            es[CHOOSE i \in live :
                  /\ es[i].key = k
                  /\ \A j \in live : es[j].key = k => j <= i].value]

\* C19: the map a Load returns (here to KEYS) binds key to value for exactly
\* the declared entries of the file that have no expiry marker or whose expiry
\* is not in the past when it loads; an entry whose expiry is in the past is
\* read and bound to nothing.
C19_ExpiryOnLoad ==
    \A c \in Conns :
        ReturnsKeys(c) => loc[c].data = LiveEntries(file.bytes, loc[c].t)

\* the same for the entries whose key is not empty
C19_NonEmptyKeys ==
    \A c \in Conns :
        ReturnsKeys(c) =>
            LET want == LiveEntries(file.bytes, loc[c].t)
            IN  loc[c].data = [k \in DOMAIN want \ {<<>>} |-> want[k]]

\* a Load that left out an entry whose expiry was in the past
C19_SomeExpired ==
    \E c \in Conns :
        /\ ReturnsKeys(c)
        /\ DeclaredCount(file.bytes) > Cardinality(DOMAIN loc[c].data)
        /\ <<>> \notin DOMAIN lastSet

\* p is at the end-of-file marker, or past the end of the file
AtEnd(b, p) == p > Len(b) \/ b[p] = EOF

\* where one is after k entries from p, stopping at the end-of-file marker
\* (the position after the first half is a value before the second half starts)
RECURSIVE Skip(_, _, _)
Skip(b, p, k) ==
    IF k = 0 THEN p
    ELSE IF k = 1 THEN (IF AtEnd(b, p) THEN p ELSE EntryAt(b, p).pos)
    ELSE CHOOSE r \in {Skip(b, q, k - k \div 2) : q \in {Skip(b, p, k \div 2)}} : TRUE

\* the least k in lo..hi with the end-of-file marker after k entries from p
RECURSIVE FirstEnd(_, _, _, _)
FirstEnd(b, p, lo, hi) ==
    IF lo >= hi THEN hi
    ELSE IF AtEnd(b, Skip(b, p, (lo + hi) \div 2))
         THEN FirstEnd(b, p, lo, (lo + hi) \div 2)
         ELSE FirstEnd(b, p, (lo + hi) \div 2 + 1, hi)

\* the number of entries encoded from p up to the end-of-file marker
EntriesBefore(b, p) == FirstEnd(b, p, 0, Len(b))

\* connection c is returning from a SAVE that wrote the file
ReturnsSave(c) == pc[c] = "write" /\ Command(c) = SAVE /\ file.exists

\* C18: in the file a Save has written, the count byte after the
\* hashtable-size marker is the number of entries encoded between it and the
\* end-of-file marker, whatever number of entries the store holds.
C18_DeclaredCount ==
    \A c \in Conns :
        ReturnsSave(c) =>
            DeclaredCount(file.bytes) = EntriesBefore(file.bytes, EntriesAt(file.bytes))

\* the same for a store of up to 255 entries
C18_UpTo255 ==
    \A c \in Conns :
        (ReturnsSave(c) /\ Cardinality(DOMAIN SETs) <= 255) =>
            DeclaredCount(file.bytes) = EntriesBefore(file.bytes, EntriesAt(file.bytes))

\* a Save of a store of 255 entries has written the file
C18_Full ==
    \E c \in Conns : ReturnsSave(c) /\ Cardinality(DOMAIN SETs) = 255

====
